---- MODULE Spec2Model ----
(***************************************************************************)
(* Model of analisis_ventas.py: the global style configuration             *)
(* (set_default_style), the three panel renderers (plot_ventas_tiempo,     *)
(* plot_ventas_por_categoria, plot_participacion_pie) and the dashboard    *)
(* generator (generar_dashboard).                                          *)
(*                                                                         *)
(* A DataFrame is a record [columns, rows]: the set of its column names    *)
(* and the sequence of its rows, each row a record indexed by column name. *)
(* A Series (the result of groupby(...).sum()) is a sequence of            *)
(* [key, val] records in index order.                                      *)
(*                                                                         *)
(* A cell of the date column is <<"ts", d>> (a Timestamp of day d),        *)
(* <<"str", d>> with d > 0 (a text that parses to day d) or <<"str", 0>>   *)
(* (a text that is no date).                                               *)
(***************************************************************************)
EXTENDS Integers, Sequences, FiniteSets, TLC

VARIABLES
    call,   \* the call being made: its operation and arguments
    df,     \* the caller's DataFrame (the argument of the call)
    ret,    \* what the call produced; Pending before it ran
    rc      \* matplotlib's process-wide rcParams

vars == <<call, df, ret, rc>>

\* ------------------------------------------------------------------ bounds

\* Most rows of an input table.
MaxRows == 3

\* Largest top_n passed to a renderer (the smallest is -2).
MaxTopN == 3

\* ------------------------------------------------------- optional values

None == <<>>
Some(x) == <<x>>

\* ------------------------------------------------------------- Series ops

\* Python's order on the category labels (str comparison).
CatRank == [c \in {"A", "B", "Otros"} |->
               CASE c = "A" -> 1 [] c = "B" -> 2 [] c = "Otros" -> 3]

\* Order on the date cells: by day; a Timestamp and the text of the same
\* day are different keys.
FechaRank == [c \in {"ts", "str"} \X (0..9) |->
                 2 * c[2] + (IF c[1] = "ts" THEN 0 ELSE 1)]

RECURSIVE SumWhere(_, _, _, _)
\* The sum of column vcol over the rows whose column kcol equals k.
SumWhere(rows, kcol, vcol, k) ==
    IF rows = <<>> THEN 0
    ELSE (IF Head(rows)[kcol] = k THEN Head(rows)[vcol] ELSE 0)
         + SumWhere(Tail(rows), kcol, vcol, k)

RECURSIVE SortedKeys(_, _)
\* The keys of S in ascending Rank order.
SortedKeys(S, Rank) ==
    IF S = {} THEN <<>>
    ELSE LET m == CHOOSE x \in S : \A y \in S : Rank[x] <= Rank[y]
         IN  <<m>> \o SortedKeys(S \ {m}, Rank)

\* (mutant) groupby(kcol)[vcol].first(): each key keeps its first row's
\* value instead of the sum.
GroupBySum_First(rows, kcol, vcol, Rank) ==
    LET keys == SortedKeys({rows[i][kcol] : i \in DOMAIN rows}, Rank)
    IN  [i \in DOMAIN keys |->
            [key |-> keys[i],
             val |-> rows[CHOOSE j \in DOMAIN rows :
                             /\ rows[j][kcol] = keys[i]
                             /\ \A h \in 1..(j - 1) : rows[h][kcol] # keys[i]][vcol]]]

\* df.groupby(kcol)[vcol].sum(): one entry per distinct key, keys ascending
\* (groupby sorts its keys).
GroupBySum(rows, kcol, vcol, Rank) ==
    LET keys == SortedKeys({rows[i][kcol] : i \in DOMAIN rows}, Rank)
    IN  [i \in DOMAIN keys |->
            [key |-> keys[i], val |-> SumWhere(rows, kcol, vcol, keys[i])]]

RECURSIVE SortIndex(_, _)
\* Series.sort_index(): entries ascending by key (keys are unique).
SortIndex(s, Rank) ==
    IF s = <<>> THEN <<>>
    ELSE LET i == CHOOSE i \in DOMAIN s :
                      \A j \in DOMAIN s : Rank[s[i].key] <= Rank[s[j].key]
         IN  <<s[i]>> \o SortIndex(SubSeq(s, 1, i - 1) \o SubSeq(s, i + 1, Len(s)), Rank)

RECURSIVE SortValuesDesc(_, _)
\* Series.sort_values(ascending=False): entries descending by value. The
\* default sort (quicksort) is not stable: the order of entries with equal
\* values is the build's, given by tie (a ranking of the keys; CatRank is
\* the order a stable sort leaves).
SortValuesDesc(s, tie) ==
    IF s = <<>> THEN <<>>
    ELSE LET i == CHOOSE i \in DOMAIN s :
                      \A j \in DOMAIN s :
                         \/ s[i].val > s[j].val
                         \/ s[i].val = s[j].val /\ tie[s[i].key] <= tie[s[j].key]
         IN  <<s[i]>> \o SortValuesDesc(SubSeq(s, 1, i - 1) \o SubSeq(s, i + 1, Len(s)), tie)

\* The position a slice bound n denotes in a sequence of length len
\* (Python: a negative bound counts from the end; both are clipped).
SliceBound(n, len) ==
    IF n >= 0 THEN (IF n < len THEN n ELSE len)
    ELSE (IF len + n > 0 THEN len + n ELSE 0)

\* Series.head(n): s.iloc[:n].
SeriesHead(s, n) == SubSeq(s, 1, SliceBound(n, Len(s)))

\* s.iloc[n:].
SeriesFrom(s, n) == SubSeq(s, SliceBound(n, Len(s)) + 1, Len(s))

RECURSIVE SeriesSum(_)
\* Series.sum(); 0 for an empty Series.
SeriesSum(s) == IF s = <<>> THEN 0 ELSE Head(s).val + SeriesSum(Tail(s))

\* s[label] = v: the entry of that label is overwritten in place when the
\* label is in the index, and a new entry is appended otherwise.
SeriesSetItem(s, label, v) ==
    IF \E i \in DOMAIN s : s[i].key = label
    THEN [i \in DOMAIN s |-> IF s[i].key = label THEN [key |-> label, val |-> v] ELSE s[i]]
    ELSE Append(s, [key |-> label, val |-> v])

\* ---------------------------------------------------------- the renderers

\* plot_ventas_tiempo: the Series handed to ax.plot.
VentasTiempo(d, fecha_col, ventas_col) ==
    SortIndex(GroupBySum(d.rows, fecha_col, ventas_col, FechaRank), FechaRank)

\* (mutant) the per-category sums left in groupby's key order.
AggCategoria_Unsorted(d, cat_col, ventas_col, tie) ==
    GroupBySum(d.rows, cat_col, ventas_col, CatRank)

\* plot_ventas_por_categoria's agg: per-category sums, largest first.
AggCategoria(d, cat_col, ventas_col, tie) ==
    SortValuesDesc(GroupBySum(d.rows, cat_col, ventas_col, CatRank), tie)

\* plot_ventas_por_categoria: the bars and the title's count.
VentasPorCategoria(d, cat_col, ventas_col, top_n, tie) ==
    LET agg_to_plot == SeriesHead(AggCategoria(d, cat_col, ventas_col, tie), top_n)
    IN  [bars |-> agg_to_plot, title_k |-> Len(agg_to_plot)]

\* (mutant) "Otros" is added when the remainder is >= 0.
ParticipacionPie_GeqZero(d, cat_col, ventas_col, top_n, tie) ==
    LET agg    == AggCategoria(d, cat_col, ventas_col, tie)
        top    == SeriesHead(agg, top_n)
        others == SeriesSum(SeriesFrom(agg, top_n))
    IN  IF others >= 0 THEN SeriesSetItem(top, "Otros", others) ELSE top

\* plot_participacion_pie: the entries handed to ax.pie.
ParticipacionPie(d, cat_col, ventas_col, top_n, tie) ==
    LET agg    == AggCategoria(d, cat_col, ventas_col, tie)
        top    == SeriesHead(agg, top_n)
        others == SeriesSum(SeriesFrom(agg, top_n))
    IN  IF others > 0 THEN SeriesSetItem(top, "Otros", others) ELSE top

\* What the installed numpy and matplotlib decide for a call on table d:
\* tie is the order sort_values leaves d's categories in when their sums are
\* equal (any ranking of them), zero_raises whether drawing a pie whose
\* wedges sum to zero fails (the sizes normalise to NaN).
Libs(d, cat_col) ==
    LET cats == IF cat_col \in d.columns
                THEN {d.rows[i][cat_col] : i \in DOMAIN d.rows} ELSE {}
    IN  [tie : {t \in [cats -> 1..Cardinality(cats)] : \A a, b \in cats : t[a] = t[b] => a = b},
         zero_raises : BOOLEAN]

\* ax.pie(values): matplotlib rejects a negative wedge size (ValueError).
PieRaises(entries, lib) ==
    \/ \E i \in DOMAIN entries : entries[i].val < 0
    \/ entries # <<>> /\ SeriesSum(entries) = 0 /\ lib.zero_raises

\* -------------------------------------------------------- generar_dashboard

NoError == [kind |-> "none"]

\* (mutant) the check passes as soon as one configured column is there.
ColumnsMissing_All(d, cols) ==
    cols[1] \notin d.columns /\ cols[2] \notin d.columns /\ cols[3] \notin d.columns

\* The check of generar_dashboard's first statement: one of the three
\* configured columns is not in df.columns.
ColumnsMissing(d, cols) ==
    cols[1] \notin d.columns \/ cols[2] \notin d.columns \/ cols[3] \notin d.columns

\* The column's dtype: datetime64 when every cell is a Timestamp, object
\* otherwise (an empty column built without a dtype is object).
ColumnDtype(d, col) ==
    IF d.rows # <<>> /\ \A i \in DOMAIN d.rows : d.rows[i][col][1] = "ts"
    THEN "datetime64" ELSE "object"

\* Whether pd.to_datetime can read the cell.
Parseable(cell) == cell[1] = "ts" \/ cell[2] > 0

\* pd.to_datetime of one cell: the Timestamp of its day.
ToDatetime(cell) == <<"ts", cell[2]>>

\* d with column col replaced by pd.to_datetime(d[col]).
WithDatetimeColumn(d, col) ==
    [d EXCEPT !.rows = [i \in DOMAIN d.rows |->
                           [d.rows[i] EXCEPT ![col] = ToDatetime(d.rows[i][col])]]]

\* (mutant) df_copy = df: the same object under a second name.
DataFrameCopy_Alias(heap, ref) == [heap |-> heap, ref |-> ref]

\* df.copy(): a new object with the same content. The result is the heap
\* with the new object and the reference to it.
DataFrameCopy(heap, ref) ==
    [heap |-> Append(heap, heap[ref]), ref |-> Len(heap) + 1]

RECURSIVE SumColumn(_, _)
\* df[col].sum().
SumColumn(rows, col) ==
    IF rows = <<>> THEN 0 ELSE Head(rows)[col] + SumColumn(Tail(rows), col)

\* df[col].nunique().
NUnique(rows, col) == Cardinality({rows[i][col] : i \in DOMAIN rows})

\* (mutant) the daily average taken as the mean over the rows.
Kpi_MeanOfRows(d, fecha_col, cat_col, ventas_col) ==
    [total_ventas    |-> SumColumn(d.rows, ventas_col),
     promedio_diario |-> [num |-> SumColumn(d.rows, ventas_col), den |-> Len(d.rows)],
     dias            |-> NUnique(d.rows, fecha_col),
     categorias      |-> NUnique(d.rows, cat_col)]

\* The KPI block's numbers. promedio_diario is the mean of the per-date
\* sums, kept as the fraction num/den (den = 0: the mean of nothing, NaN).
Kpi(d, fecha_col, cat_col, ventas_col) ==
    LET por_dia == GroupBySum(d.rows, fecha_col, ventas_col, FechaRank)
    IN  [total_ventas    |-> SumColumn(d.rows, ventas_col),
         promedio_diario |-> [num |-> SeriesSum(por_dia), den |-> Len(por_dia)],
         dias            |-> NUnique(d.rows, fecha_col),
         categorias      |-> NUnique(d.rows, cat_col)]

\* top_n of the bar and pie panels as generar_dashboard calls them (the
\* renderers' defaults).
DashTopNBar == 8
DashTopNPie == 6

\* (mutant) the figure grid is created before the table is looked at.
Pipeline_GridFirst ==
    << "subplots", "validate", "copy", "coerce",
       "plot_ventas_tiempo", "plot_ventas_por_categoria", "plot_participacion_pie",
       "kpi", "suptitle", "return" >>

\* The statements of generar_dashboard, in the order the function runs them.
Pipeline ==
    << "validate", "copy", "coerce", "subplots",
       "plot_ventas_tiempo", "plot_ventas_por_categoria", "plot_participacion_pie",
       "kpi", "suptitle", "return" >>

\* The frame of a call of generar_dashboard before its first statement:
\* heap[1] is the caller's DataFrame, df_copy is not bound yet (0).
Frame(d) ==
    [heap |-> <<d>>, df_copy |-> 0, fig |-> FALSE, drawn |-> {},
     time |-> <<>>, bar |-> [bars |-> <<>>, title_k |-> 0], pie |-> <<>>,
     kpi |-> <<>>, titled |-> FALSE, returned |-> FALSE,
     error |-> NoError, log |-> <<>>]

\* The columns a statement of generar_dashboard reads from df_copy.
ColumnsRead(step, cols) ==
    CASE step = "coerce"                    -> {cols[1]}
      [] step = "plot_ventas_tiempo"        -> {cols[1], cols[3]}
      [] step = "plot_ventas_por_categoria" -> {cols[2], cols[3]}
      [] step = "plot_participacion_pie"    -> {cols[2], cols[3]}
      [] step = "kpi"                       -> {cols[1], cols[2], cols[3]}
      [] OTHER                              -> {}

\* One statement of generar_dashboard run in frame s. Reading a column the
\* DataFrame does not have raises pandas' KeyError.
Exec(step, s, cols, lib) ==
    LET fecha_col  == cols[1]
        cat_col    == cols[2]
        ventas_col == cols[3]
        t == [s EXCEPT !.log = Append(@, step)]
    IN  CASE ColumnsRead(step, cols) # {}
             /\ ~(ColumnsRead(step, cols) \subseteq s.heap[s.df_copy].columns) ->
               [t EXCEPT !.error = [kind |-> "KeyError"]]
          [] step = "validate" ->
               IF ColumnsMissing(s.heap[1], cols)
               THEN [t EXCEPT !.error = [kind |-> "MissingColumn", cols |-> cols]]
               ELSE t
          [] step = "copy" ->
               LET c == DataFrameCopy(s.heap, 1)
               IN  [t EXCEPT !.heap = c.heap, !.df_copy = c.ref]
          [] step = "coerce" ->
               LET d == s.heap[s.df_copy]
               IN  IF ColumnDtype(d, fecha_col) = "datetime64" THEN t
                   ELSE IF \E i \in DOMAIN d.rows : ~Parseable(d.rows[i][fecha_col])
                   THEN [t EXCEPT !.error = [kind |-> "DateParse"]]
                   ELSE [t EXCEPT !.heap[s.df_copy] = WithDatetimeColumn(d, fecha_col)]
          [] step = "subplots" ->
               [t EXCEPT !.fig = TRUE]
          [] step = "plot_ventas_tiempo" ->
               [t EXCEPT !.time = VentasTiempo(s.heap[s.df_copy], fecha_col, ventas_col),
                         !.drawn = @ \cup {"ax_time"}]
          [] step = "plot_ventas_por_categoria" ->
               [t EXCEPT !.bar = VentasPorCategoria(s.heap[s.df_copy], cat_col, ventas_col,
                                                    DashTopNBar, lib.tie),
                         !.drawn = @ \cup {"ax_bar"}]
          [] step = "plot_participacion_pie" ->
               LET top == ParticipacionPie(s.heap[s.df_copy], cat_col, ventas_col,
                                           DashTopNPie, lib.tie)
               IN  IF PieRaises(top, lib)
                   THEN [t EXCEPT !.pie = top, !.error = [kind |-> "PieValue"]]
                   ELSE [t EXCEPT !.pie = top, !.drawn = @ \cup {"ax_pie"}]
          [] step = "kpi" ->
               [t EXCEPT !.kpi = Kpi(s.heap[s.df_copy], fecha_col, cat_col, ventas_col),
                         !.drawn = @ \cup {"ax_empty"}]
          [] step = "suptitle" ->
               [t EXCEPT !.titled = TRUE]
          [] step = "return" ->
               [t EXCEPT !.returned = TRUE]

RECURSIVE Run(_, _, _, _)
\* The statements run in order; a raised error ends the call.
Run(steps, s, cols, lib) ==
    IF steps = <<>> \/ s.error # NoError THEN s
    ELSE Run(Tail(steps), Exec(Head(steps), s, cols, lib), cols, lib)

\* generar_dashboard(d, fecha_col, cat_col, ventas_col): the frame at its end.
GenerarDashboard(d, cols, lib) == Run(Pipeline, Frame(d), cols, lib)

\* -------------------------------------------------------- set_default_style

\* rcParams values are written as the text of their Python literals.
CORPORATE_COLORS ==
    << "#0B5FFF", "#00B37E", "#FFB020", "#E11D48", "#7C3AED", "#06B6D4" >>

\* The dict DEFAULT_STYLE, its items in insertion order.
DEFAULT_STYLE ==
    << <<"figure.figsize", "(12, 7)">>,
       <<"axes.titlesize", "16">>,
       <<"axes.labelsize", "12">>,
       <<"xtick.labelsize", "10">>,
       <<"ytick.labelsize", "10">>,
       <<"legend.fontsize", "10">>,
       <<"lines.linewidth", "2">>,
       <<"grid.alpha", "0.25">> >>

\* The rcParams the model tracks, with matplotlib's values at import.
MatplotlibDefaults ==
    [ k \in { "figure.figsize", "axes.titlesize", "axes.labelsize", "xtick.labelsize",
              "ytick.labelsize", "legend.fontsize", "lines.linewidth", "grid.alpha",
              "axes.prop_cycle", "figure.facecolor", "axes.facecolor", "grid.color",
              "axes.edgecolor", "axes.grid", "font.size" } |->
        CASE k = "figure.figsize"   -> "(6.4, 4.8)"
          [] k = "axes.titlesize"   -> "large"
          [] k = "axes.labelsize"   -> "medium"
          [] k = "xtick.labelsize"  -> "medium"
          [] k = "ytick.labelsize"  -> "medium"
          [] k = "legend.fontsize"  -> "medium"
          [] k = "lines.linewidth"  -> "1.5"
          [] k = "grid.alpha"       -> "1.0"
          [] k = "axes.prop_cycle"  -> << "#1f77b4", "#ff7f0e", "#2ca02c" >>
          [] k = "figure.facecolor" -> "white"
          [] k = "axes.facecolor"   -> "white"
          [] k = "grid.color"       -> "#b0b0b0"
          [] k = "axes.edgecolor"   -> "black"
          [] k = "axes.grid"        -> "False"
          [] k = "font.size"        -> "10.0" ]

\* The colour texts matplotlib's cycler validation accepts, among those the
\* model passes.
ValidColors ==
    { CORPORATE_COLORS[i] : i \in DOMAIN CORPORATE_COLORS } \cup {"#000000", "red", "green"}

RECURSIVE RcUpdate(_, _)
\* plt.rcParams.update(items): the items are set one by one in the dict's
\* order; a name that is no rcParam raises KeyError and the items before it
\* stay set.
RcUpdate(params, items) ==
    IF items = <<>> THEN [rc |-> params, error |-> NoError]
    ELSE IF Head(items)[1] \notin DOMAIN params
    THEN [rc |-> params, error |-> [kind |-> "KeyError"]]
    ELSE RcUpdate([params EXCEPT ![Head(items)[1]] = Head(items)[2]], Tail(items))

\* (mutant) an omitted style_opts changes nothing.
StyleOrDefault_Empty(style_opts) == IF style_opts = None THEN <<>> ELSE style_opts[1]

\* The arguments set_default_style works with: the built-in defaults for an
\* omitted (None) argument.
ColorsOrDefault(colors) == IF colors = None THEN CORPORATE_COLORS ELSE colors[1]

StyleOrDefault(style_opts) == IF style_opts = None THEN DEFAULT_STYLE ELSE style_opts[1]

\* set_default_style(colors, style_opts): rcParams after the call and the
\* error it raised, if any.
SetDefaultStyle(params, colors, style_opts) ==
    LET cs  == ColorsOrDefault(colors)
        upd == RcUpdate(params, StyleOrDefault(style_opts))
    IN  IF upd.error # NoError THEN upd
        ELSE IF \E i \in DOMAIN cs : cs[i] \notin ValidColors
        THEN [rc |-> upd.rc, error |-> [kind |-> "ValueError"]]
        ELSE [rc |-> [upd.rc EXCEPT !["axes.prop_cycle"]  = cs,
                                    !["figure.facecolor"] = "white",
                                    !["axes.facecolor"]   = "#FBFBFD",
                                    !["grid.color"]       = "#DDE6F6",
                                    !["axes.edgecolor"]   = "#2B2B2B",
                                    !["axes.grid"]        = "True"],
              error |-> NoError]

\* ---------------------------------------------------------------- inputs

Categorias == {"A", "B", "Otros"}
TopNs == (-2)..MaxTopN
DefaultColArgs == <<"fecha", "categoria", "ventas">>
OtherColArgs == <<"dia", "rubro", "monto">>

\* The tables of at most MaxRows rows whose columns are named cols, with
\* dates in F, categories in C and amounts in V.
Tables(cols, F, C, V) ==
    LET Rows == {(cols[1] :> f) @@ (cols[2] :> c) @@ (cols[3] :> v) :
                    f \in F, c \in C, v \in V}
    IN  {[columns |-> {cols[1], cols[2], cols[3]}, rows |-> r] :
            r \in UNION {[1..n -> Rows] : n \in 0..MaxRows}}

\* Inputs of the category renderers, of the time renderer and of the
\* dashboard (with the default column names, and with any column names).
CatTables == Tables(DefaultColArgs, {<<"ts", 1>>}, Categorias, {-1, 1, 2})
TimeTables ==
    Tables(DefaultColArgs, {<<"ts", 1>>, <<"ts", 2>>, <<"ts", 3>>}, {"A"}, {-1, 0, 1, 2})
DashTables ==
    Tables(DefaultColArgs, {<<"ts", 1>>, <<"ts", 2>>, <<"str", 1>>, <<"str", 0>>},
           {"A", "B"}, {-1, 2})
ColTables ==
    Tables(DefaultColArgs, {<<"ts", 1>>, <<"str", 2>>}, {"A"}, {1, 2})
    \cup Tables(OtherColArgs, {<<"ts", 1>>, <<"str", 2>>}, {"A"}, {1, 2})

\* The table of the documented example: 2024-01-01 and 2024-01-02 are days 1
\* and 2.
ExampleTable ==
    [columns |-> {"fecha", "categoria", "ventas"},
     rows |-> << [fecha |-> <<"ts", 1>>, categoria |-> "A", ventas |-> 100],
                 [fecha |-> <<"ts", 1>>, categoria |-> "B", ventas |-> 50],
                 [fecha |-> <<"ts", 2>>, categoria |-> "A", ventas |-> 30] >>]

\* Column-name arguments of generar_dashboard.
ColArgs == {"fecha", "dia"} \X {"categoria", "rubro"} \X {"ventas", "monto"}

\* Arguments of set_default_style. A dict is the sequence of its items.
ColorArgs ==
    { None, Some(<<"#000000">>), Some(<<"red", "green">>), Some(<<"notacolor">>) }

StyleArgs ==
    { None,
      Some(<< >>),
      Some(<< <<"lines.linewidth", "3">> >>),
      Some(<< <<"axes.titlesize", "20">>, <<"grid.alpha", "0.5">> >>),
      Some(<< <<"font.size", "9">>, <<"axes.grid", "False">> >>),
      Some(<< <<"legend.fontsize", "8">>, <<"no.such.param", "1">>,
              <<"xtick.labelsize", "7">> >>) }

\* The tables the module's example builds: one row per date and category,
\* dates outermost, each with a positive amount.
DemoTables ==
    LET fechas     == << <<"ts", 1>>, <<"ts", 2>> >>
        categorias == << "A", "B" >>
        cell(i)    == [f |-> ((i - 1) \div Len(categorias)) + 1,
                       c |-> ((i - 1) % Len(categorias)) + 1]
        n          == Len(fechas) * Len(categorias)
    IN  {[columns |-> {"fecha", "categoria", "ventas"},
          rows |-> [i \in 1..n |-> [fecha |-> fechas[cell(i).f],
                                    categoria |-> categorias[cell(i).c],
                                    ventas |-> v[i]]]] :
            v \in [1..n -> {1, 2}]}

\* The calls a process makes on the table it built.
DataCalls ==
    {[op |-> "generar_dashboard", cols |-> DefaultColArgs], [op |-> "plot_ventas_tiempo"]}
    \cup [op : {"plot_ventas_por_categoria", "plot_participacion_pie"}, top_n : TopNs]

EmptyTable == [columns |-> {"fecha", "categoria", "ventas"}, rows |-> <<>>]

Pending == [status |-> "pending"]

\* ------------------------------------------------------------------ spec

\* A process that has not configured the style and is about to call a
\* renderer or generar_dashboard on its table, or a process that starts by
\* configuring the style (any number of times) and then goes on to build a
\* table and call a renderer or generar_dashboard (next_call), as the
\* module's example does.
Init ==
    /\ rc = MatplotlibDefaults
    /\ ret = Pending
    /\ \/ /\ df \in TimeTables
          /\ call = [op |-> "plot_ventas_tiempo"]
       \/ /\ df \in CatTables
          /\ call \in [op : {"plot_ventas_por_categoria", "plot_participacion_pie"},
                       top_n : TopNs]
       \/ /\ df \in DashTables \cup {ExampleTable}
          /\ call = [op |-> "generar_dashboard", cols |-> DefaultColArgs]
       \/ /\ df \in ColTables
          /\ call \in [op : {"generar_dashboard"}, cols : ColArgs]
       \/ /\ df = EmptyTable
          /\ call = [op |-> "set_default_style"]

set_default_style ==
    /\ call.op = "set_default_style"
    /\ \E colors \in ColorArgs, style_opts \in StyleArgs :
          LET r == SetDefaultStyle(rc, colors, style_opts)
          IN  /\ rc' = r.rc
              /\ ret' = [status |-> IF r.error = NoError THEN "returned" ELSE "raised",
                         error |-> r.error, colors |-> colors, style_opts |-> style_opts]
    /\ UNCHANGED <<call, df>>

\* After set_default_style the process builds its table and turns to a
\* renderer or to generar_dashboard; rcParams stay as configured.
next_call ==
    /\ call.op = "set_default_style"
    /\ ret # Pending
    /\ df' \in DemoTables
    /\ call' \in DataCalls
    /\ ret' = Pending
    /\ UNCHANGED rc

plot_ventas_tiempo ==
    /\ call.op = "plot_ventas_tiempo"
    /\ ret = Pending
    /\ ret' = [status |-> "returned", series |-> VentasTiempo(df, "fecha", "ventas")]
    /\ UNCHANGED <<call, df, rc>>

plot_ventas_por_categoria ==
    /\ call.op = "plot_ventas_por_categoria"
    /\ ret = Pending
    /\ \E lib \in Libs(df, "categoria") :
          LET r == VentasPorCategoria(df, "categoria", "ventas", call.top_n, lib.tie)
          IN  ret' = [status |-> "returned", bars |-> r.bars, title_k |-> r.title_k]
    /\ UNCHANGED <<call, df, rc>>

plot_participacion_pie ==
    /\ call.op = "plot_participacion_pie"
    /\ ret = Pending
    /\ \E lib \in Libs(df, "categoria") :
          LET top == ParticipacionPie(df, "categoria", "ventas", call.top_n, lib.tie)
          IN  ret' = [status |-> IF PieRaises(top, lib) THEN "raised" ELSE "returned",
                      pie |-> top]
    /\ UNCHANGED <<call, df, rc>>

generar_dashboard ==
    /\ call.op = "generar_dashboard"
    /\ ret = Pending
    /\ \E lib \in Libs(df, call.cols[2]) :
          LET f == GenerarDashboard(df, call.cols, lib)
          IN  /\ df' = f.heap[1]
              /\ ret' = [status |-> IF f.returned THEN "returned" ELSE "raised",
                         frame |-> f]
    /\ UNCHANGED <<call, rc>>

Next ==
    \/ set_default_style
    \/ next_call
    \/ plot_ventas_tiempo
    \/ plot_ventas_por_categoria
    \/ plot_participacion_pie
    \/ generar_dashboard

Spec == Init /\ [][Next]_vars

\* ---------------------------------------------------------------- claims

\* The call of operation op has run.
Done(op) == call.op = op /\ ret # Pending

RECURSIVE SumOver(_, _, _)
\* The sum of column col over the rows at the positions idx.
SumOver(rows, col, idx) ==
    IF idx = {} THEN 0
    ELSE LET i == CHOOSE i \in idx : TRUE
         IN  rows[i][col] + SumOver(rows, col, idx \ {i})

\* The sum of column vcol over the rows whose column kcol is k.
TotalOf(rows, kcol, vcol, k) ==
    SumOver(rows, vcol, {i \in DOMAIN rows : rows[i][kcol] = k})

\* The distinct values of a column.
Distinct(rows, col) == {rows[i][col] : i \in DOMAIN rows}

\* The permutations of 1..n.
Perms(n) == {p \in [1..n -> 1..n] : \A i, j \in 1..n : p[i] = p[j] => i = j}

Min(a, b) == IF a <= b THEN a ELSE b
Max(a, b) == IF a >= b THEN a ELSE b

\* The working copy of a finished generar_dashboard call.
WorkingCopy == ret.frame.heap[ret.frame.df_copy]

\* C1: generar_dashboard fails with MissingColumn, naming the three
\* configured columns, exactly when the table lacks one of them.
C1_MissingColumn ==
    Done("generar_dashboard") =>
        IF \E i \in 1..3 : call.cols[i] \notin df.columns
        THEN /\ ret.status = "raised"
             /\ ret.frame.error = [kind |-> "MissingColumn", cols |-> call.cols]
        ELSE ret.frame.error.kind # "MissingColumn"

\* C1's case: only the amount column is missing and the call failed.
C1_Witness ==
    /\ Done("generar_dashboard")
    /\ call.cols = <<"fecha", "categoria", "monto">>
    /\ df.columns = {"fecha", "categoria", "ventas"}
    /\ ret.frame.error.kind = "MissingColumn"

\* C2: a call of generar_dashboard, successful or failed, leaves the
\* caller's table as it was; the dates are converted in the working copy.
C2_CallerTableUnchanged ==
    [][call.op = "generar_dashboard" =>
          /\ df' = df
          /\ ret'.status = "returned" =>
                LET w == ret'.frame.heap[ret'.frame.df_copy]
                IN  /\ ret'.frame.df_copy # 1
                    /\ \A i \in DOMAIN w.rows : w.rows[i][call.cols[1]][1] = "ts"]_vars

\* C2's case: the caller's date column holds text, the call returned and the
\* working copy's date column holds Timestamps.
C2_Witness ==
    /\ Done("generar_dashboard")
    /\ ret.status = "returned"
    /\ \E i \in DOMAIN df.rows : df.rows[i][call.cols[1]][1] = "str"
    /\ \A i \in DOMAIN WorkingCopy.rows : WorkingCopy.rows[i][call.cols[1]][1] = "ts"

\* C3: for top_n >= 1 the entries handed to the pie ("Otros" included) sum
\* to the total of the amount column. Stated on the tables with no negative
\* amount, where the remainder cannot be negative.
C3_PieSumEqualsTotal ==
    ( /\ Done("plot_participacion_pie")
      /\ call.top_n >= 1
      /\ \A i \in DOMAIN df.rows : df.rows[i].ventas >= 0 )
    => SeriesSum(ret.pie) = SumOver(df.rows, "ventas", DOMAIN df.rows)

\* C4: the time series is the same for every order of the rows: one entry
\* per distinct date, ascending by date, holding the sum of that date's
\* amounts.
C4_TimeOrderIndependent ==
    Done("plot_ventas_tiempo") =>
        LET s == ret.series
        IN  /\ \A p \in Perms(Len(df.rows)) :
                  VentasTiempo([df EXCEPT !.rows = [i \in DOMAIN df.rows |-> df.rows[p[i]]]],
                               "fecha", "ventas") = s
            /\ {s[i].key : i \in DOMAIN s} = Distinct(df.rows, "fecha")
            /\ \A i, j \in DOMAIN s : i < j => s[i].key[2] < s[j].key[2]
            /\ \A i \in DOMAIN s : s[i].val = TotalOf(df.rows, "fecha", "ventas", s[i].key)

\* C4's case: rows out of date order, two of them on the same date with
\* different amounts.
C4_Witness ==
    /\ Done("plot_ventas_tiempo")
    /\ Len(df.rows) >= 3
    /\ df.rows[1].fecha[2] > df.rows[2].fecha[2]
    /\ df.rows[1].fecha = df.rows[3].fecha
    /\ df.rows[1].ventas # df.rows[3].ventas
    /\ Len(ret.series) = 2

\* C5: with top_n >= the number of distinct categories the pie gets exactly
\* the distinct categories with their sums, and no "Otros" entry is added.
C5_NoOtrosWhenAllKept ==
    ( /\ Done("plot_participacion_pie")
      /\ call.top_n >= Cardinality(Distinct(df.rows, "categoria")) )
    => /\ Len(ret.pie) = Cardinality(Distinct(df.rows, "categoria"))
       /\ \A c \in Distinct(df.rows, "categoria") :
             \E i \in DOMAIN ret.pie :
                /\ ret.pie[i].key = c
                /\ ret.pie[i].val = TotalOf(df.rows, "categoria", "ventas", c)

\* C5's case: top_n equals the number of distinct categories, of which
\* there are several with a positive sum.
C5_Witness ==
    /\ Done("plot_participacion_pie")
    /\ Cardinality(Distinct(df.rows, "categoria")) = 2
    /\ call.top_n = 2
    /\ \A i \in DOMAIN ret.pie : ret.pie[i].val > 0
    /\ Len(ret.pie) = 2

\* C6: the KPI numbers of a call that returned: the total is the sum of the
\* amounts, the daily average times the number of distinct days is the
\* total, days and categories count the distinct dates and categories; the
\* documented example gives 180, 90, 2 and 2.
C6_Kpi ==
    Done("generar_dashboard") =>
        /\ ret.status = "returned" =>
              LET k    == ret.frame.kpi
                  rows == df.rows
                  dias == {rows[i][call.cols[1]][2] : i \in DOMAIN rows}
              IN  /\ k.total_ventas = SumOver(rows, call.cols[3], DOMAIN rows)
                  /\ k.dias = Cardinality(dias)
                  /\ k.categorias = Cardinality(Distinct(rows, call.cols[2]))
                  /\ k.promedio_diario.den = k.dias
                  /\ k.promedio_diario.num = k.total_ventas
        /\ df = ExampleTable =>
              /\ ret.status = "returned"
              /\ ret.frame.kpi.total_ventas = 180
              /\ ret.frame.kpi.promedio_diario.num = 90 * ret.frame.kpi.promedio_diario.den
              /\ ret.frame.kpi.dias = 2
              /\ ret.frame.kpi.categorias = 2

\* C6's case: the documented example was rendered.
C6_Witness ==
    /\ Done("generar_dashboard")
    /\ df = ExampleTable
    /\ ret.status = "returned"
    /\ ret.frame.kpi.total_ventas = 180

\* C7: set_default_style falls back to the built-in defaults for an omitted
\* argument, whatever was set before: with no colors the colour cycle is the
\* six corporate colours, with no style_opts every parameter of
\* DEFAULT_STYLE has its built-in value, and the call without arguments does
\* not raise.
C7_StyleFallback ==
    Done("set_default_style") =>
        /\ (ret.colors = None /\ ret.style_opts = None) => ret.status = "returned"
        /\ (ret.colors = None /\ ret.status = "returned") =>
              rc["axes.prop_cycle"] =
                 << "#0B5FFF", "#00B37E", "#FFB020", "#E11D48", "#7C3AED", "#06B6D4" >>
        /\ ret.style_opts = None =>
              /\ rc["figure.figsize"] = "(12, 7)"
              /\ rc["axes.titlesize"] = "16"
              /\ rc["axes.labelsize"] = "12"
              /\ rc["xtick.labelsize"] = "10"
              /\ rc["ytick.labelsize"] = "10"
              /\ rc["legend.fontsize"] = "10"
              /\ rc["lines.linewidth"] = "2"
              /\ rc["grid.alpha"] = "0.25"

\* C7's case: a call without arguments made after calls that set other
\* values (font.size is only ever set by such a call).
C7_Witness ==
    /\ Done("set_default_style")
    /\ ret.colors = None
    /\ ret.style_opts = None
    /\ rc["font.size"] = "9"
    /\ rc["lines.linewidth"] = "2"

\* The number of bars for top_n over n distinct categories: the first top_n,
\* or all but the last -top_n when top_n is negative.
BarCount(top_n, n) == IF top_n >= 0 THEN Min(top_n, n) ELSE Max(n + top_n, 0)

\* The bars are categories of the table with their sums, largest first, and
\* no category left out has a larger sum than a bar.
BarsAreTheLargest ==
    LET cats == Distinct(df.rows, "categoria")
        bars == ret.bars
    IN  /\ \A i, j \in DOMAIN bars : i < j =>
              bars[i].key # bars[j].key /\ bars[i].val >= bars[j].val
        /\ \A i \in DOMAIN bars :
              /\ bars[i].key \in cats
              /\ bars[i].val = TotalOf(df.rows, "categoria", "ventas", bars[i].key)
        /\ \A c \in cats \ {bars[i].key : i \in DOMAIN bars} :
              \A i \in DOMAIN bars : bars[i].val >= TotalOf(df.rows, "categoria", "ventas", c)

\* C8 (as amended): the bar panel renders k bars and its title says k, with
\* k = min(top_n, distinct categories) for top_n >= 0 and
\* k = max(distinct categories + top_n, 0) for a negative top_n; the bars are
\* the k largest per-category sums, largest first.
C8_BarCountAndOrder ==
    Done("plot_ventas_por_categoria") =>
        /\ Len(ret.bars) = BarCount(call.top_n, Cardinality(Distinct(df.rows, "categoria")))
        /\ ret.title_k = Len(ret.bars)
        /\ BarsAreTheLargest

\* C8 (as claimed): k = min(top_n, distinct categories) for every top_n.
C8_Original ==
    Done("plot_ventas_por_categoria") =>
        /\ Len(ret.bars) = Min(call.top_n, Cardinality(Distinct(df.rows, "categoria")))
        /\ ret.title_k = Len(ret.bars)
        /\ BarsAreTheLargest

\* C8's case: three categories with different sums, cut to the top two.
C8_Witness ==
    /\ Done("plot_ventas_por_categoria")
    /\ Cardinality(Distinct(df.rows, "categoria")) = 3
    /\ call.top_n = 2
    /\ ret.title_k = 2
    /\ ret.bars[1].val > ret.bars[2].val

\* C9: for top_n >= 0, "Otros" is added after the kept categories, with the
\* remainder as its value, exactly when the remainder is > 0, and the kept
\* categories keep their sums; otherwise the entries are the kept categories.
C9_OtrosIffPositiveRemainder ==
    (Done("plot_participacion_pie") /\ call.top_n >= 0) =>
        \E lib \in Libs(df, "categoria") :
           LET agg  == AggCategoria(df, "categoria", "ventas", lib.tie)
               kept == SubSeq(agg, 1, Min(call.top_n, Len(agg)))
               rest == SumOver(df.rows, "ventas",
                               {i \in DOMAIN df.rows :
                                   \A j \in DOMAIN kept : kept[j].key # df.rows[i].categoria})
           IN  ret.pie = IF rest > 0 THEN Append(kept, [key |-> "Otros", val |-> rest])
                         ELSE kept

\* The statements of generar_dashboard in their order.
DashboardOrder ==
    << "validate", "copy", "coerce", "subplots",
       "plot_ventas_tiempo", "plot_ventas_por_categoria", "plot_participacion_pie",
       "kpi", "suptitle", "return" >>

\* C10: generar_dashboard runs validate, copy/coerce, grid, the three
\* panels, the KPI text, the title and the return in this order and stops at
\* the first failure: a call that fails on a missing column or on a date
\* that does not parse has created no figure and drawn nothing, and a call
\* returns only after the four cells were rendered.
C10_Pipeline ==
    Done("generar_dashboard") =>
        LET f == ret.frame
        IN  /\ Len(f.log) <= Len(DashboardOrder)
            /\ f.log = SubSeq(DashboardOrder, 1, Len(f.log))
            /\ f.error.kind \in {"MissingColumn", "DateParse"} =>
                  ~f.fig /\ f.drawn = {} /\ ~f.returned
            /\ f.error.kind = "MissingColumn" => f.log = <<"validate">>
            /\ f.error.kind = "DateParse" => f.log = <<"validate", "copy", "coerce">>
            /\ f.returned <=> f.error = NoError
            /\ f.returned =>
                  /\ f.fig /\ f.titled
                  /\ f.drawn = {"ax_time", "ax_bar", "ax_pie", "ax_empty"}
                  /\ f.log = DashboardOrder

\* C10's case: the date column holds a text that is no date and the call
\* failed before the grid was created.
C10_Witness ==
    /\ Done("generar_dashboard")
    /\ ret.frame.error.kind = "DateParse"
    /\ ~ret.frame.fig
    /\ Len(df.rows) >= 2

====
